---- MODULE Spec2Model ----
(***************************************************************************)
(* Buffer pool manager (src/buffer/buffer_pool_manager.cpp) and its LRU    *)
(* replacer (src/buffer/lru_replacer.cpp).                                 *)
(*                                                                         *)
(* Spec     : one caller issuing the public operations of the pool one     *)
(*            after the other (each operation is one step).                *)
(* SpecLRU  : the replacer driven directly through Victim / Pin / Unpin.   *)
(* SpecH    : Spec with a history of the flush calls made so far.          *)
(* SpecP    : Spec with a history of the pins taken and given back.        *)
(* SpecC    : several threads calling the public operations, one source    *)
(*            statement group per step, with latch_ and the replacer's     *)
(*            mutex.                                                       *)
(***************************************************************************)
EXTENDS Integers, Sequences, FiniteSets, TLC

\* ---------------------------------------------------------------- bounds
PoolSize == 2      \* pool_size handed to the constructor
MaxPin == 2        \* a frame is not fetched again once it holds this many pins
LRUFrames == 3     \* frame ids the replacer harness uses
MaxClock == 5      \* the replacer harness stops unpinning at this logical time
NumThreads == 2    \* threads calling the pool concurrently
MaxCalls == 3      \* calls each of those threads makes

\* ------------------------------------------------------------- constants
INVALID_PAGE_ID == -1
NoFrame == -1

Frames == 0 .. (PoolSize - 1)
\* page ids the disk manager hands out: one more than the pool can hold
NumPages == PoolSize + 1
PageIds == 0 .. (NumPages - 1)
\* frame ids handed to the replacer when it is driven on its own
RFrames == 0 .. (LRUFrames - 1)
\* delete_page is not called once the free list holds this many entries
MaxFreeLen == PoolSize
Threads == 1 .. NumThreads

VARIABLES
    pages,         \* pages_[f] : page_id_, pin_count_, is_dirty_
    page_table,    \* page_table_ : page id -> frame id
    free_list,     \* free_list_ : sequence of frame ids, front first
    cacheList,     \* LRUReplacer::cacheList, front first
    cacheIndex,    \* LRUReplacer::cacheIndex (its key set)
    next_page_id,  \* the disk manager's allocation counter
    since,         \* since[f] : logical time at which f last became tracked
    clock,         \* logical time of the replacer
    last,          \* the call that produced this state, its result and disk I/O
    hist,          \* bookkeeping of the calls made so far (SpecH, SpecP, SpecC)
    latch,         \* latch_ : the thread holding it, 0 when free
    control,       \* LRUReplacer::control : the thread holding it, 0 when free
    threads        \* threads[t] : where thread t is in the call it is making

vars == <<pages, page_table, free_list, cacheList, cacheIndex, next_page_id,
          since, clock, last, hist, latch, control, threads>>

concVars == <<latch, control, threads>>

poolVars == <<pages, page_table, free_list, next_page_id>>
replacerVars == <<cacheList, cacheIndex>>
stateVars == <<pages, page_table, free_list, cacheList, cacheIndex, next_page_id>>

\* ------------------------------------------------------------ page frame
\* The metadata of a frame.  Its buffer changes only through
\* Page::ResetMemory() and DiskManager::ReadPage(), which the operations
\* record as "zero" and "read" events on the frame.
FreshPage == [page_id |-> INVALID_PAGE_ID, pin_count |-> 0, is_dirty |-> FALSE]

\* ----------------------------------------------------------- I/O events
Ev(kind, p, f) == [ev |-> kind, page |-> p, frame |-> f]

\* -------------------------------------------------------------- helpers
SeqToSet(s) == { s[i] : i \in 1 .. Len(s) }
Front(s) == SubSeq(s, 1, Len(s) - 1)
Back(s) == s[Len(s)]
RemoveElem(s, x) == SelectSeq(s, LAMBDA y : y # x)

\* std::unordered_map::erase(key)
MapErase(m, k) == [ q \in (DOMAIN m) \ {k} |-> m[q] ]
\* std::unordered_map::insert({key, value}) : keeps an existing entry
MapInsert(m, k, v) == IF k \in DOMAIN m THEN m
                      ELSE [ q \in (DOMAIN m) \cup {k} |-> IF q = k THEN v ELSE m[q] ]
\* std::unordered_map::operator[] : inserts a value-initialised frame id (0)
\* for a missing key
MapIndexMap(m, k) == IF k \in DOMAIN m THEN m
                     ELSE [ q \in (DOMAIN m) \cup {k} |-> IF q = k THEN 0 ELSE m[q] ]
MapIndexVal(m, k) == IF k \in DOMAIN m THEN m[k] ELSE 0

\* ------------------------------------------------------------- replacer
\* The replacer as a value: R = [cacheList, cacheIndex].
Replacer == [cacheList |-> cacheList, cacheIndex |-> cacheIndex]

\* LRUVictim taking the front (most recently unpinned) element instead
LRUVictimFront(R) ==
    IF Cardinality(R.cacheIndex) # 0
    THEN LET f == Head(R.cacheList)
         IN [ok |-> TRUE, frame |-> f,
             R |-> [cacheList |-> Tail(R.cacheList),
                    cacheIndex |-> R.cacheIndex \ {f}]]
    ELSE [ok |-> FALSE, frame |-> NoFrame, R |-> R]

\* LRUReplacer::Victim
LRUVictim(R) ==
    IF Cardinality(R.cacheIndex) # 0
    THEN LET f == Back(R.cacheList)
         IN [ok |-> TRUE, frame |-> f,
             R |-> [cacheList |-> Front(R.cacheList),
                    cacheIndex |-> R.cacheIndex \ {f}]]
    ELSE [ok |-> FALSE, frame |-> NoFrame, R |-> R]

\* LRUReplacer::Pin
LRUPin(R, f) ==
    IF f \in R.cacheIndex
    THEN [cacheList |-> RemoveElem(R.cacheList, f),
          cacheIndex |-> R.cacheIndex \ {f}]
    ELSE R

\* LRUUnpin splicing an already tracked frame to the front
LRUUnpinRefresh(R, f) ==
    [cacheList |-> <<f>> \o RemoveElem(R.cacheList, f),
     cacheIndex |-> R.cacheIndex \cup {f}]

\* LRUReplacer::Unpin
LRUUnpin(R, f) ==
    IF f \notin R.cacheIndex
    THEN [cacheList |-> <<f>> \o R.cacheList,
          cacheIndex |-> R.cacheIndex \cup {f}]
    ELSE R

\* LRUReplacer::Size
LRUSize(R) == Cardinality(R.cacheIndex)

\* ------------------------------------------------------- buffer pool
\* The pool as a value while an operation runs: io is the sequence of disk and
\* frame events the operation has issued so far, ok / frame its result.
PoolState == [pages |-> pages, page_table |-> page_table, free_list |-> free_list,
              R |-> Replacer, next_page_id |-> next_page_id,
              io |-> <<>>, ok |-> FALSE, frame |-> NoFrame]

\* BufferPoolManager::FlushPageImpl (takes no latch; also called by the
\* eviction paths and by FlushAllPagesImpl)
FlushPageImpl(s, page_id) ==
    IF page_id \in DOMAIN s.page_table
    THEN LET f == s.page_table[page_id]
         IN IF s.pages[f].is_dirty
            THEN [s EXCEPT !.io = Append(@, Ev("write", page_id, f)),
                           !.pages[f].is_dirty = FALSE,
                           !.ok = TRUE]
            ELSE [s EXCEPT !.ok = TRUE]
    ELSE [s EXCEPT !.ok = FALSE]

\* FetchPageImpl, lines 53-76: the replacement frame, from the free list
\* first, else a victim (written back when dirty, erased from the page table)
FetchReplacement(s) ==
    IF s.free_list # <<>>
    THEN [s EXCEPT !.free_list = Tail(@), !.ok = TRUE, !.frame = Head(s.free_list)]
    ELSE LET v == LRUVictim(s.R)
         IN IF v.ok
            THEN LET f  == v.frame
                     s1 == [s EXCEPT !.R = v.R]
                     s2 == IF s1.pages[f].is_dirty
                           THEN [FlushPageImpl(s1, s1.pages[f].page_id)
                                   EXCEPT !.pages[f].is_dirty = FALSE]
                           ELSE s1
                 IN [s2 EXCEPT !.page_table = MapErase(@, s2.pages[f].page_id),
                               !.ok = TRUE, !.frame = f]
            ELSE [s EXCEPT !.ok = FALSE, !.frame = NoFrame]

\* FetchPageImpl, lines 44-49: the page is in the page table
FetchHit(s, page_id) ==
    LET f == s.page_table[page_id]
    IN [s EXCEPT !.R = LRUPin(@, f),
                 !.pages[f].pin_count = @ + 1,
                 !.ok = TRUE, !.frame = f]

\* FetchPageImpl, lines 78-89: read the page into frame f and set its metadata
FetchInstall(s, f, page_id) ==
    [s EXCEPT !.io = @ \o << Ev("zero", INVALID_PAGE_ID, f),
                             Ev("read", page_id, f),
                             Ev("setid", page_id, f) >>,
              !.pages[f] = [page_id |-> page_id, pin_count |-> 1,
                            is_dirty |-> FALSE],
              !.page_table = MapInsert(@, page_id, f),
              !.R = LRUPin(@, f),
              !.ok = TRUE, !.frame = f]

\* BufferPoolManager::FetchPageImpl
FetchPageImpl(s, page_id) ==
    IF page_id \in DOMAIN s.page_table
    THEN FetchHit(s, page_id)
    ELSE LET r == FetchReplacement(s)
         IN IF r.ok THEN FetchInstall(r, r.frame, page_id) ELSE r

\* UnpinPageImpl without the pin_count_ > 0 test
UnpinPageImplNoGuard(s, page_id, is_dirty) ==
    IF page_id \in DOMAIN s.page_table
    THEN LET f  == s.page_table[page_id]
             s1 == [s EXCEPT !.pages[f].pin_count = @ - 1,
                             !.pages[f].is_dirty = is_dirty]
         IN IF s1.pages[f].pin_count = 0
            THEN [s1 EXCEPT !.R = LRUUnpin(@, f), !.ok = TRUE]
            ELSE [s1 EXCEPT !.ok = TRUE]
    ELSE [s EXCEPT !.ok = FALSE]

\* BufferPoolManager::UnpinPageImpl
UnpinPageImpl(s, page_id, is_dirty) ==
    IF page_id \in DOMAIN s.page_table
    THEN LET f == s.page_table[page_id]
         IN IF s.pages[f].pin_count > 0
            THEN LET s1 == [s EXCEPT !.pages[f].pin_count = @ - 1,
                                     !.pages[f].is_dirty = is_dirty]
                 IN IF s1.pages[f].pin_count = 0
                    THEN [s1 EXCEPT !.R = LRUUnpin(@, f), !.ok = TRUE]
                    ELSE [s1 EXCEPT !.ok = TRUE]
            ELSE [s EXCEPT !.ok = FALSE]
    ELSE [s EXCEPT !.ok = FALSE]

\* NewPageImpl, lines 150-168: the replacement frame, as in FetchPageImpl
NewReplacement(s) ==
    IF s.free_list # <<>>
    THEN [s EXCEPT !.free_list = Tail(@), !.ok = TRUE, !.frame = Head(s.free_list)]
    ELSE LET v == LRUVictim(s.R)
         IN IF v.ok
            THEN LET f  == v.frame
                     s1 == [s EXCEPT !.R = v.R]
                     s2 == IF s1.pages[f].is_dirty
                           THEN [FlushPageImpl(s1, s1.pages[f].page_id)
                                   EXCEPT !.pages[f].is_dirty = FALSE]
                           ELSE s1
                 IN [s2 EXCEPT !.page_table = MapErase(@, s2.pages[f].page_id),
                               !.ok = TRUE, !.frame = f]
            ELSE [s EXCEPT !.ok = FALSE, !.frame = NoFrame]

\* DiskManager::AllocatePage : the next unused page id
AllocatePage(s) == s.next_page_id

\* NewPageImpl, lines 170-180: allocate the id, then set up frame f
NewInstall(s, f) ==
    LET id == AllocatePage(s)
    IN [s EXCEPT !.next_page_id = @ + 1,
                 !.io = @ \o << Ev("alloc", id, NoFrame),
                                Ev("setid", id, f),
                                Ev("zero", INVALID_PAGE_ID, f) >>,
                 !.pages[f] = [page_id |-> id, pin_count |-> 1,
                               is_dirty |-> FALSE],
                 !.page_table = MapInsert(@, id, f),
                 !.R = LRUPin(@, f),
                 !.ok = TRUE, !.frame = f]

\* NewPageImpl calling AllocatePage before a frame is secured
NewPageImplAllocFirst(s) ==
    LET r == NewReplacement(s)
    IN IF r.ok
       THEN NewInstall(r, r.frame)
       ELSE [r EXCEPT !.next_page_id = @ + 1,
                      !.io = Append(@, Ev("alloc", AllocatePage(s), NoFrame))]

\* BufferPoolManager::NewPageImpl
NewPageImpl(s) ==
    LET r == NewReplacement(s)
    IN IF r.ok THEN NewInstall(r, r.frame) ELSE r

\* DeletePageImpl, lines 202-213: drop the page and give a frame back
\* (frame records the frame p pointed at, for the caller's log only)
DeleteReset(s, page_id) ==
    LET f  == s.page_table[page_id]
        s1 == [s EXCEPT !.page_table = MapErase(@, s.pages[f].page_id)]
        s2 == [s1 EXCEPT !.io = Append(@, Ev("zero", INVALID_PAGE_ID, f)),
                         !.pages[f] = FreshPage]
    IN [s2 EXCEPT !.free_list = Append(@, MapIndexVal(s2.page_table, page_id)),
                  !.page_table = MapIndexMap(@, page_id),
                  !.ok = TRUE, !.frame = f]

\* DeletePageImpl without the pin_count_ > 0 test
DeletePageImplNoPinCheck(s, page_id) ==
    LET s0 == [s EXCEPT !.io = Append(@, Ev("dealloc", page_id, NoFrame))]
    IN IF page_id \notin DOMAIN s0.page_table
       THEN [s0 EXCEPT !.ok = TRUE]
       ELSE DeleteReset(s0, page_id)

\* BufferPoolManager::DeletePageImpl
DeletePageImpl(s, page_id) ==
    LET s0 == [s EXCEPT !.io = Append(@, Ev("dealloc", page_id, NoFrame))]
    IN IF page_id \notin DOMAIN s0.page_table
       THEN [s0 EXCEPT !.ok = TRUE]
       ELSE IF s0.pages[s0.page_table[page_id]].pin_count > 0
            THEN [s0 EXCEPT !.ok = FALSE]
            ELSE DeleteReset(s0, page_id)

\* BufferPoolManager::FlushAllPagesImpl : frames ctr .. pool_size - 1
RECURSIVE FlushFrom(_, _)
FlushFrom(s, ctr) ==
    IF ctr < PoolSize
    THEN FlushFrom(FlushPageImpl(s, s.pages[ctr].page_id), ctr + 1)
    ELSE s

FlushAllPagesImpl(s) == FlushFrom(s, 0)

\* ------------------------------------------------------------ actions
Call(op, p, d, s) == [op |-> op, page |-> p, dirty |-> d,
                      ok |-> s.ok, frame |-> s.frame, io |-> s.io]

\* The pool after an operation left it in s.
Commit(s) ==
    /\ pages' = s.pages
    /\ page_table' = s.page_table
    /\ free_list' = s.free_list
    /\ cacheList' = s.R.cacheList
    /\ cacheIndex' = s.R.cacheIndex
    /\ next_page_id' = s.next_page_id

\* page ids a caller can name: those the disk manager has handed out
Allocated == 0 .. (next_page_id - 1)
Nameable == Allocated \cup {INVALID_PAGE_ID}

\* a thread that is not inside a call, having made n calls
Idle(n) == [pc |-> "idle", op |-> "none", page |-> INVALID_PAGE_ID,
            dirty |-> FALSE, frame |-> NoFrame, ctr |-> 0, calls |-> n]

\* BufferPoolManager(pool_size, ...) and LRUReplacer(num_pages)
\* (the replacer's constructor only calls cacheIndex.reserve, on a member it
\* never sets: whatever bucket count results, the map has no key)
Init ==
    /\ pages = [f \in Frames |-> FreshPage]
    /\ page_table = << >>
    /\ free_list = [i \in 1 .. PoolSize |-> i - 1]
    /\ cacheList = << >>
    /\ cacheIndex = {}
    /\ next_page_id = 0
    /\ since = [f \in RFrames |-> 0]
    /\ clock = 0
    /\ last = [op |-> "init", page |-> INVALID_PAGE_ID, dirty |-> FALSE,
               ok |-> TRUE, frame |-> NoFrame, io |-> << >>]
    /\ hist = [flushed |-> {}, allClean |-> FALSE, held |-> [p \in PageIds |-> 0],
               unsaved |-> {}]
    /\ latch = 0
    /\ control = 0
    /\ threads = [t \in Threads |-> Idle(0)]

FetchPage(p) ==
    /\ p \in DOMAIN page_table => pages[page_table[p]].pin_count < MaxPin
    /\ LET s == FetchPageImpl(PoolState, p)
       IN /\ Commit(s)
          /\ last' = Call("fetch", p, FALSE, s)
    /\ UNCHANGED <<since, clock>>

NewPage ==
    /\ next_page_id < NumPages
    /\ LET s == NewPageImpl(PoolState)
       IN /\ Commit(s)
          /\ last' = Call("new", IF s.ok THEN s.pages[s.frame].page_id
                                 ELSE INVALID_PAGE_ID, FALSE, s)
    /\ UNCHANGED <<since, clock>>

UnpinPage(p, d) ==
    /\ LET s == UnpinPageImpl(PoolState, p, d)
       IN /\ Commit(s)
          /\ last' = Call("unpin", p, d, s)
    /\ UNCHANGED <<since, clock>>

FlushPage(p) ==
    /\ LET s == FlushPageImpl(PoolState, p)
       IN /\ Commit(s)
          /\ last' = Call("flush", p, FALSE, s)
    /\ UNCHANGED <<since, clock>>

FlushAllPages ==
    /\ LET s == FlushAllPagesImpl(PoolState)
       IN /\ Commit(s)
          /\ last' = Call("flushall", INVALID_PAGE_ID, FALSE, [s EXCEPT !.ok = TRUE])
    /\ UNCHANGED <<since, clock>>

DeletePage(p) ==
    /\ Len(free_list) < MaxFreeLen
    /\ LET s == DeletePageImpl(PoolState, p)
       IN /\ Commit(s)
          /\ last' = Call("delete", p, FALSE, s)
    /\ UNCHANGED <<since, clock>>

Next ==
    \/ \E p \in Allocated : FetchPage(p) /\ UNCHANGED <<hist, concVars>>
    \/ NewPage /\ UNCHANGED <<hist, concVars>>
    \/ \E p \in Allocated, d \in BOOLEAN : UnpinPage(p, d) /\ UNCHANGED <<hist, concVars>>
    \/ \E p \in Nameable : FlushPage(p) /\ UNCHANGED <<hist, concVars>>
    \/ FlushAllPages /\ UNCHANGED <<hist, concVars>>
    \/ \E p \in Allocated : DeletePage(p) /\ UNCHANGED <<hist, concVars>>

Spec == Init /\ [][Next]_vars

\* ------------------------------------------------- calls with bookkeeping
\* hist.flushed  : page ids flushed by flush_page with no unpin_page(p, true)
\*                 call since
\* hist.allClean : flush_all has run with no unpin_page(_, true) call since
\* hist.unsaved  : frames holding a change announced by unpin_page(_, true)
\*                 that no write_page has carried to disk yet (SpecC)
\* hist.held[p]  : successful fetch_page(p) / new_page returns minus
\*                 successful unpin_page(p, _) returns since p became resident
\*                 (kept within -1 .. MaxPin + 1, and 0 while p is not cached)
Clamp(n) == IF n < -1 THEN -1 ELSE IF n > MaxPin + 1 THEN MaxPin + 1 ELSE n

\* SpecH keeps flushed and allClean
FlushHistAfter(h, c) ==
    [h EXCEPT
       !.flushed = IF c.op = "flush" /\ c.ok THEN @ \cup {c.page}
                   ELSE IF c.op = "unpin" /\ c.dirty THEN @ \ {c.page}
                   ELSE @,
       !.allClean = IF c.op = "flushall" THEN TRUE
                    ELSE IF c.op = "unpin" /\ c.dirty THEN FALSE
                    ELSE @]

HistStep == hist' = FlushHistAfter(hist, last') /\ UNCHANGED concVars

NextH ==
    \/ \E p \in Allocated : FetchPage(p) /\ HistStep
    \/ NewPage /\ HistStep
    \/ \E p \in Allocated, d \in BOOLEAN : UnpinPage(p, d) /\ HistStep
    \/ \E p \in Nameable : FlushPage(p) /\ HistStep
    \/ FlushAllPages /\ HistStep
    \/ \E p \in Allocated : DeletePage(p) /\ HistStep

SpecH == Init /\ [][NextH]_vars

\* SpecP keeps held
PinHistAfter(h, c, before, after) ==
    LET p == c.page
        counted ==
            IF c.op = "new" /\ c.ok THEN [h.held EXCEPT ![p] = 1]
            ELSE IF c.op = "fetch" /\ c.ok
                 THEN [h.held EXCEPT ![p] = IF p \in DOMAIN before
                                            THEN Clamp(@ + 1) ELSE 1]
            ELSE IF c.op = "unpin" /\ c.ok THEN [h.held EXCEPT ![p] = Clamp(@ - 1)]
            ELSE h.held
    IN [h EXCEPT !.held = [q \in PageIds |->
                              IF q \in DOMAIN after THEN counted[q] ELSE 0]]

PinStep ==
    /\ hist' = PinHistAfter(hist, last', page_table, page_table')
    /\ UNCHANGED concVars

NextP ==
    \/ \E p \in Allocated : FetchPage(p) /\ PinStep
    \/ NewPage /\ PinStep
    \/ \E p \in Allocated, d \in BOOLEAN : UnpinPage(p, d) /\ PinStep
    \/ \E p \in Nameable : FlushPage(p) /\ PinStep
    \/ FlushAllPages /\ PinStep
    \/ \E p \in Allocated : DeletePage(p) /\ PinStep

SpecP == Init /\ [][NextP]_vars

\* ---------------------------------------------------- replacer harness
RCall(op, f, ok) == [op |-> op, page |-> INVALID_PAGE_ID, dirty |-> FALSE,
                     ok |-> ok, frame |-> f, io |-> << >>]

RVictim ==
    /\ LET v == LRUVictim(Replacer)
       IN /\ cacheList' = v.R.cacheList
          /\ cacheIndex' = v.R.cacheIndex
          /\ last' = RCall("rvictim", v.frame, v.ok)
    /\ UNCHANGED <<poolVars, since, clock>>

RPin(f) ==
    /\ LET R == LRUPin(Replacer, f)
       IN /\ cacheList' = R.cacheList
          /\ cacheIndex' = R.cacheIndex
          /\ last' = RCall("rpin", f, TRUE)
    /\ UNCHANGED <<poolVars, since, clock>>

\* since / clock record when a frame that was not tracked is handed to Unpin
RUnpin(f) ==
    /\ clock < MaxClock
    /\ LET R == LRUUnpin(Replacer, f)
       IN /\ cacheList' = R.cacheList
          /\ cacheIndex' = R.cacheIndex
          /\ last' = RCall("runpin", f, TRUE)
    /\ since' = IF f \in cacheIndex THEN since ELSE [since EXCEPT ![f] = clock + 1]
    /\ clock' = clock + 1
    /\ UNCHANGED poolVars

NextLRU ==
    \/ RVictim /\ UNCHANGED <<hist, concVars>>
    \/ \E f \in RFrames : RPin(f) /\ UNCHANGED <<hist, concVars>>
    \/ \E f \in RFrames : RUnpin(f) /\ UNCHANGED <<hist, concVars>>

SpecLRU == Init /\ [][NextLRU]_vars

\* ------------------------------------------------------ concurrent callers
\* Threads call the public operations.  threads[t].pc is where thread t is:
\*   "idle"     between calls
\*   "lock"     at the std::lock_guard line that opens FetchPageImpl,
\*              UnpinPageImpl, NewPageImpl or DeletePageImpl
\*   "run"      past that line, holding latch_, the body still to run
\*   "replacer" body done, inside its calls into the replacer
\*   "unlock"   at the return, the lock_guard still in scope
\*   "find"     FlushPageImpl at page_table_.find(page_id)
\*   "test"     FlushPageImpl at if (p->is_dirty_)
\*   "write"    FlushPageImpl at disk_manager_->WritePage(...)
\*   "clear"    FlushPageImpl at p->is_dirty_ = false
\*   "loop"     FlushAllPagesImpl at while (ctr < pool_size_)
\*   "fault"    stopped by a fault in the unsynchronised page_table_ lookup
\* A body that runs under latch_ is one step; FlushPageImpl and
\* FlushAllPagesImpl, which take no lock, are one step per statement.

\* the operations whose Impl opens with std::lock_guard<std::mutex>(latch_)
Latched(op) == op \in {"fetch", "new", "unpin", "delete"}

\* the arguments thread calls are made with, within the bounds of Spec
Callable(op, p, d) ==
    CASE op = "fetch"  -> /\ p \in Allocated /\ ~d
                          /\ p \in DOMAIN page_table =>
                                pages[page_table[p]].pin_count < MaxPin
      [] op = "new"    -> p = INVALID_PAGE_ID /\ ~d /\ next_page_id < NumPages
      [] op = "unpin"  -> p \in Allocated
      [] op = "delete" -> p \in Allocated /\ ~d /\ Len(free_list) < MaxFreeLen
      [] OTHER         -> FALSE

\* the pool after the body of the latched call c
BodyResult(c) ==
    CASE c.op = "fetch"  -> FetchPageImpl(PoolState, c.page)
      [] c.op = "new"    -> NewPageImpl(PoolState)
      [] c.op = "unpin"  -> UnpinPageImpl(PoolState, c.page, c.dirty)
      [] c.op = "delete" -> DeletePageImpl(PoolState, c.page)

\* the body of c calls replacer_->Victim, Pin or Unpin
UsesReplacer(c) ==
    CASE c.op \in {"fetch", "new"} -> TRUE
      [] c.op = "unpin" -> /\ c.page \in DOMAIN page_table
                           /\ pages[page_table[c.page]].pin_count = 1
      [] OTHER -> FALSE

\* the body of c writes its victim back (FlushPageImpl from the eviction path)
WritesBack(c) ==
    LET io == BodyResult(c).io
    IN \E i \in 1 .. Len(io) : io[i].ev = "write"

\* hist.unsaved after the body of c left the pool in s
UnsavedAfter(c, s) ==
    LET gone == { s.io[i].frame : i \in { j \in 1 .. Len(s.io) :
                                     s.io[j].ev \in {"write", "zero"} } }
        made == IF c.op = "unpin" /\ c.dirty /\ s.ok
                THEN {page_table[c.page]} ELSE {}
    IN (hist.unsaved \ gone) \cup made

\* another thread is about to run a body that inserts into or erases from
\* page_table_ while thread t reads it without holding latch_
TableRace(t) ==
    \E u \in Threads \ {t} :
        /\ threads[u].pc = "run"
        /\ BodyResult(threads[u]).page_table # page_table

seqVars == <<since, clock, last>>

\* thread t calls fetch_page, new_page, unpin_page or delete_page
CallLatched(t) ==
    /\ threads[t].pc = "idle"
    /\ threads[t].calls < MaxCalls
    /\ threads' = [threads EXCEPT ![t].pc = "lock", ![t].calls = @ + 1]
    /\ UNCHANGED <<stateVars, seqVars, hist, latch, control>>

\* std::lock_guard<std::mutex> guard(latch_)
Acquire(t, op, p, d) ==
    /\ threads[t].pc = "lock"
    /\ Latched(op)
    /\ Callable(op, p, d)
    /\ latch = 0
    /\ latch' = t
    /\ threads' = [threads EXCEPT ![t].pc = "run", ![t].op = op,
                                  ![t].page = p, ![t].dirty = d]
    /\ UNCHANGED <<stateVars, seqVars, hist, control>>

\* the body of FetchPageImpl, NewPageImpl, UnpinPageImpl or DeletePageImpl
Body(t) ==
    /\ threads[t].pc = "run"
    /\ LET c == threads[t]
           s == BodyResult(c)
       IN /\ Commit(s)
          /\ hist' = [hist EXCEPT !.unsaved = UnsavedAfter(c, s)]
          /\ IF UsesReplacer(c)
             THEN /\ control = 0
                  /\ control' = t
                  /\ threads' = [threads EXCEPT ![t].pc = "replacer"]
             ELSE /\ threads' = [threads EXCEPT ![t].pc = "unlock"]
                  /\ UNCHANGED control
    /\ UNCHANGED <<seqVars, latch>>

\* the lock_guard on control goes out of scope
ReplacerReturn(t) ==
    /\ threads[t].pc = "replacer"
    /\ control' = 0
    /\ threads' = [threads EXCEPT ![t].pc = "unlock"]
    /\ UNCHANGED <<stateVars, seqVars, hist, latch>>

\* return: the lock_guard on latch_ goes out of scope
Unlock(t) ==
    /\ threads[t].pc = "unlock"
    /\ latch' = 0
    /\ threads' = [threads EXCEPT ![t] = Idle(threads[t].calls)]
    /\ UNCHANGED <<stateVars, seqVars, hist, control>>

\* thread t calls flush_page(p)
CallFlush(t, p) ==
    /\ threads[t].pc = "idle"
    /\ threads[t].calls < MaxCalls
    /\ threads' = [threads EXCEPT ![t].pc = "find", ![t].op = "flush",
                                  ![t].page = p, ![t].calls = @ + 1]
    /\ UNCHANGED <<stateVars, seqVars, hist, latch, control>>

\* thread t calls flush_all()
CallFlushAll(t) ==
    /\ threads[t].pc = "idle"
    /\ threads[t].calls < MaxCalls
    /\ threads' = [threads EXCEPT ![t].pc = "loop", ![t].op = "flushall",
                                  ![t].calls = @ + 1]
    /\ UNCHANGED <<stateVars, seqVars, hist, latch, control>>

\* FlushPageImpl returns: to its caller, or into the loop of FlushAllPagesImpl
FlushDone(t) ==
    IF threads[t].op = "flushall"
    THEN threads' = [threads EXCEPT ![t].pc = "loop", ![t].ctr = @ + 1,
                                    ![t].page = INVALID_PAGE_ID,
                                    ![t].frame = NoFrame]
    ELSE threads' = [threads EXCEPT ![t] = Idle(threads[t].calls)]

\* FlushAllPagesImpl, lines 217-221
FlushAllStep(t) ==
    /\ threads[t].pc = "loop"
    /\ IF threads[t].ctr < PoolSize
       THEN threads' = [threads EXCEPT ![t].pc = "find",
                                       ![t].page = pages[threads[t].ctr].page_id]
       ELSE threads' = [threads EXCEPT ![t] = Idle(threads[t].calls)]
    /\ UNCHANGED <<stateVars, seqVars, hist, latch, control>>

\* FlushPageImpl, lines 122-125 and 135-136
FlushFind(t) ==
    /\ threads[t].pc = "find"
    /\ IF threads[t].page \in DOMAIN page_table
       THEN threads' = [threads EXCEPT ![t].pc = "test",
                                       ![t].frame = page_table[threads[t].page]]
       ELSE FlushDone(t)
    /\ UNCHANGED <<stateVars, seqVars, hist, latch, control>>

\* FlushPageImpl, line 122, racing with an insert or erase on page_table_:
\* the lookup walks nodes and buckets that are being freed
FlushFindFault(t) ==
    /\ threads[t].pc = "find"
    /\ TableRace(t)
    /\ threads' = [threads EXCEPT ![t].pc = "fault"]
    /\ UNCHANGED <<stateVars, seqVars, hist, latch, control>>

\* FlushPageImpl, line 127
FlushTest(t) ==
    /\ threads[t].pc = "test"
    /\ IF pages[threads[t].frame].is_dirty
       THEN threads' = [threads EXCEPT ![t].pc = "write"]
       ELSE FlushDone(t)
    /\ UNCHANGED <<stateVars, seqVars, hist, latch, control>>

\* FlushPageImpl, line 128: the frame's buffer goes to disk as page page_id
FlushWrite(t) ==
    /\ threads[t].pc = "write"
    /\ hist' = [hist EXCEPT !.unsaved =
                  IF pages[threads[t].frame].page_id = threads[t].page
                  THEN @ \ {threads[t].frame} ELSE @]
    /\ threads' = [threads EXCEPT ![t].pc = "clear"]
    /\ UNCHANGED <<stateVars, seqVars, latch, control>>

\* FlushPageImpl, line 129
FlushClear(t) ==
    /\ threads[t].pc = "clear"
    /\ pages' = [pages EXCEPT ![threads[t].frame].is_dirty = FALSE]
    /\ FlushDone(t)
    /\ UNCHANGED <<page_table, free_list, cacheList, cacheIndex, next_page_id,
                   seqVars, hist, latch, control>>

\* the steps thread t takes once it has made a call
Progress(t) ==
    \/ \E op \in {"fetch", "new", "unpin", "delete"},
          p \in PageIds \cup {INVALID_PAGE_ID}, d \in BOOLEAN : Acquire(t, op, p, d)
    \/ Body(t)
    \/ ReplacerReturn(t)
    \/ Unlock(t)
    \/ FlushAllStep(t)
    \/ FlushFind(t)
    \/ FlushTest(t)
    \/ FlushWrite(t)
    \/ FlushClear(t)

NextC ==
    \/ \E t \in Threads : CallLatched(t)
    \/ \E t \in Threads, op \in {"fetch", "new", "unpin", "delete"},
          p \in PageIds \cup {INVALID_PAGE_ID}, d \in BOOLEAN : Acquire(t, op, p, d)
    \/ \E t \in Threads : Body(t)
    \/ \E t \in Threads : ReplacerReturn(t)
    \/ \E t \in Threads : Unlock(t)
    \/ \E t \in Threads, p \in Nameable : CallFlush(t, p)
    \/ \E t \in Threads : CallFlushAll(t)
    \/ \E t \in Threads : FlushAllStep(t)
    \/ \E t \in Threads : FlushFind(t)
    \/ \E t \in Threads : FlushFindFault(t)
    \/ \E t \in Threads : FlushTest(t)
    \/ \E t \in Threads : FlushWrite(t)
    \/ \E t \in Threads : FlushClear(t)

\* every thread inside a call keeps being scheduled
SpecC == Init /\ [][NextC]_vars /\ \A t \in Threads : WF_vars(Progress(t))

\* =================================================================
\* Properties
\* =================================================================

\* what an operation's event log says about frame f
BufferTouched(io, f) ==
    \E i \in 1 .. Len(io) : io[i].frame = f /\ io[i].ev \in {"zero", "read"}
Reassigned(io, f) ==
    \E i \in 1 .. Len(io) : io[i].frame = f /\ io[i].ev = "setid"
Written(io, p, f) ==
    \E i \in 1 .. Len(io) : io[i] = Ev("write", p, f)
WrittenFirst(io, p, f) ==
    \E i \in 1 .. Len(io) :
        /\ io[i] = Ev("write", p, f)
        /\ \A j \in 1 .. Len(io) :
              (io[j].frame = f /\ io[j].ev \in {"zero", "read", "setid"}) => i < j
Count(io, kind) == Cardinality({ i \in 1 .. Len(io) : io[i].ev = kind })

\* C1: in-use pages are never evicted: no operation changes the page_id, or
\* resets or reloads the buffer, of a frame whose pin_count is greater than 0.
C1_PinnedFrameKept ==
    [][ \A f \in Frames :
          pages[f].pin_count > 0 =>
             /\ pages'[f].page_id = pages[f].page_id
             /\ ~BufferTouched(last'.io, f) ]_vars

\* C2: write-back before reuse: when fetch_page or new_page gives a frame that
\* is dirty for its resident page p to a different page, write_page(p) of that
\* frame is issued before the frame is zeroed, read into or given the new id.
C2_WriteBackBeforeReuse ==
    [][ ( /\ last'.op \in {"fetch", "new"}
          /\ last'.ok
          /\ Reassigned(last'.io, last'.frame)
          /\ pages[last'.frame].is_dirty
          /\ pages[last'.frame].page_id # last'.page )
        => WrittenFirst(last'.io, pages[last'.frame].page_id, last'.frame) ]_vars

\* C3: a successful unpin_page(p, d) sets is_dirty to (old is_dirty OR d);
\* is_dirty goes false->true only through unpin_page(_, true) and, while the
\* page stays resident, true->false only through a write-back of the frame.
C3_UnpinKeepsDirty ==
    [][ /\ (last'.op = "unpin" /\ last'.ok) =>
              LET f == page_table[last'.page]
              IN pages'[f].is_dirty = (pages[f].is_dirty \/ last'.dirty)
        /\ \A f \in Frames :
              /\ (~pages[f].is_dirty /\ pages'[f].is_dirty) =>
                    (last'.op = "unpin" /\ last'.ok /\ last'.dirty)
              /\ ( /\ pages[f].is_dirty /\ ~pages'[f].is_dirty
                   /\ pages'[f].page_id = pages[f].page_id
                   /\ last'.op \in {"unpin", "flush", "flushall", "fetch"} ) =>
                    Written(last'.io, pages[f].page_id, f) ]_vars

\* C4: a successful fetch_page(p) returns a frame whose page_id is p, whose
\* pin_count is at least 1 and which the replacer does not track; when p is
\* cached it returns the frame that already holds p, raises its pin_count by
\* exactly 1 and reads nothing from disk.
C4_FetchReturnsPage ==
    [][ (last'.op = "fetch" /\ last'.ok) =>
          LET f == last'.frame
              p == last'.page
          IN /\ pages'[f].page_id = p
             /\ pages'[f].pin_count >= 1
             /\ f \notin cacheIndex'
             /\ p \in DOMAIN page_table =>
                   /\ f = page_table[p]
                   /\ pages[f].page_id = p
                   /\ pages'[f].pin_count = pages[f].pin_count + 1
                   /\ Count(last'.io, "read") = 0 ]_vars

\* C5: after delete_page(p) returns true for a cached page p held by frame f,
\* p is no key of the page table, the replacer does not track f, frame f is
\* reset, and f itself has been appended to the free list.
C5_DeleteFreesFrame ==
    [][ (last'.op = "delete" /\ last'.ok /\ last'.page \in DOMAIN page_table) =>
          LET f == page_table[last'.page]
          IN /\ last'.page \notin DOMAIN page_table'
             /\ f \notin cacheIndex'
             /\ pages'[f] = FreshPage
             /\ free_list' = Append(free_list, f) ]_vars


\* C6: a fetch_page of an uncached page, or a new_page, returns "none" exactly
\* when the free list is empty and every frame is pinned (the replacer has no
\* victim); then nothing changes and allocate_page is not called;
\* allocate_page is called once per successful new_page, after the frame has
\* been secured (after any write-back of the victim).
C6_Exhaustion ==
    [][ ( \/ last'.op = "new"
          \/ (last'.op = "fetch" /\ last'.page \notin DOMAIN page_table) ) =>
          /\ (~last'.ok) <=> (free_list = << >> /\ \A f \in Frames : pages[f].pin_count > 0)
          /\ (~last'.ok) <=> (free_list = << >> /\ cacheIndex = {})
          /\ (~last'.ok) => (UNCHANGED stateVars /\ last'.io = << >>)
          /\ Count(last'.io, "alloc") = IF last'.op = "new" /\ last'.ok THEN 1 ELSE 0
          /\ \A i, j \in 1 .. Len(last'.io) :
                (last'.io[i].ev = "write" /\ last'.io[j].ev = "alloc") => i < j ]_vars

\* C6 witness: new_page has just been refused with every frame pinned.
C6_Witness ==
    /\ last.op = "new"
    /\ ~last.ok
    /\ free_list = << >>
    /\ \A f \in Frames : pages[f].pin_count > 0

\* C7: unpin_page(p, d) returns false and changes nothing when p is not in the
\* page table or its frame's pin_count is 0; otherwise it returns true, lowers
\* that pin_count by exactly 1 and hands the frame to the replacer exactly when
\* the pin_count has reached 0.
C7_UnpinResult ==
    [][ (last'.op = "unpin") =>
          LET p == last'.page
          IN IF p \notin DOMAIN page_table \/ pages[page_table[p]].pin_count = 0
             THEN ~last'.ok /\ UNCHANGED stateVars
             ELSE LET f == page_table[p]
                  IN /\ last'.ok
                     /\ pages'[f].pin_count = pages[f].pin_count - 1
                     /\ \A g \in Frames \ {f} : pages'[g] = pages[g]
                     /\ UNCHANGED <<page_table, free_list, next_page_id>>
                     /\ IF pages'[f].pin_count = 0
                        THEN /\ f \in cacheIndex'
                             /\ f \notin cacheIndex => cacheList' = <<f>> \o cacheList
                        ELSE UNCHANGED replacerVars ]_vars

\* C7 witness: unpin_page has just been refused for a cached page with no pins.
C7_Witness ==
    /\ last.op = "unpin"
    /\ ~last.ok
    /\ last.page \in DOMAIN page_table
    /\ pages[page_table[last.page]].pin_count = 0

\* C8: delete_page(p) on a cached page whose pin_count is greater than 0
\* returns false and changes nothing; it has only called deallocate_page(p).
C8_DeletePinned ==
    [][ ( /\ last'.op = "delete"
          /\ last'.page \in DOMAIN page_table
          /\ pages[page_table[last'.page]].pin_count > 0 ) =>
          /\ ~last'.ok
          /\ UNCHANGED stateVars
          /\ last'.io = << Ev("dealloc", last'.page, NoFrame) >> ]_vars

\* C8 witness: delete_page has just been refused for a pinned cached page.
C8_Witness ==
    /\ last.op = "delete"
    /\ ~last.ok
    /\ last.page \in DOMAIN page_table
    /\ pages[page_table[last.page]].pin_count > 0

\* the frames in the order repeated Victim calls hand them out
RECURSIVE VictimOrder(_)
VictimOrder(R) ==
    LET v == LRUVictim(R)
    IN IF v.ok THEN <<v.frame>> \o VictimOrder(v.R) ELSE << >>

\* C9: Victim on a non-empty replacer removes and returns the tracked frame
\* that became tracked earliest; on an empty replacer it returns "none" and
\* changes nothing.
C9_VictimIsLRU ==
    [][ (last'.op = "rvictim") =>
          IF cacheIndex = {}
          THEN ~last'.ok /\ UNCHANGED replacerVars
          ELSE /\ last'.ok
               /\ last'.frame \in cacheIndex
               /\ \A g \in cacheIndex : since[last'.frame] <= since[g]
               /\ cacheIndex' = cacheIndex \ {last'.frame}
               /\ SeqToSet(cacheList') = cacheIndex'
               /\ Len(cacheList') = Len(cacheList) - 1 ]_vars

\* C9 witness: Victim has just taken the oldest of three tracked frames.
C9_Witness ==
    /\ last.op = "rvictim"
    /\ last.ok
    /\ Cardinality(cacheIndex) = 2
    /\ \A g \in cacheIndex : since[last.frame] < since[g]

\* C10: Unpin of a tracked frame changes neither the size nor the eviction
\* order; Pin(f) followed by Unpin(f) makes f the last of the tracked frames
\* that Victim hands out.
C10_UnpinNoRefresh ==
    [][ (last'.op = "runpin") =>
          LET f == last'.frame
          IN /\ f \in cacheIndex =>
                  /\ UNCHANGED replacerVars
                  /\ LRUSize(Replacer') = LRUSize(Replacer)
                  /\ VictimOrder(Replacer') = VictimOrder(Replacer)
             /\ (last.op = "rpin" /\ last.frame = f) =>
                  VictimOrder(Replacer') = VictimOrder(Replacer) \o <<f>> ]_vars

\* C10 witness: Unpin has just been called on a frame that is tracked but is
\* not the most recently unpinned one.
C10_Witness ==
    /\ last.op = "runpin"
    /\ last.frame \in cacheIndex
    /\ Len(cacheList) >= 2
    /\ cacheList[1] # last.frame
    /\ since[last.frame] < clock

\* frames some cached page id maps to
TableImage == { page_table[p] : p \in DOMAIN page_table }

\* C14: page-table consistency: for every page id p in the page table with
\* page_table[p] = f, frames[f].page_id is p and f is not in the free list;
\* no two page ids map to one frame and INVALID is never a key.
C14_PageTableConsistent ==
    /\ \A p \in DOMAIN page_table :
          /\ pages[page_table[p]].page_id = p
          /\ page_table[p] \notin SeqToSet(free_list)
    /\ \A p, q \in DOMAIN page_table : page_table[p] = page_table[q] => p = q
    /\ INVALID_PAGE_ID \notin DOMAIN page_table

\* C15: frame partition: every frame id is in exactly one of the free list,
\* the page-table image with pin_count > 0 and outside the replacer, the
\* page-table image with pin_count = 0 and inside the replacer; no frame is in
\* both the free list and the replacer, none is twice in the free list.
C15_FramePartition ==
    /\ \A f \in Frames :
          LET free     == f \in SeqToSet(free_list)
              pinned   == f \in TableImage /\ pages[f].pin_count > 0
                                           /\ f \notin cacheIndex
              unpinned == f \in TableImage /\ pages[f].pin_count = 0
                                           /\ f \in cacheIndex
          IN /\ free \/ pinned \/ unpinned
             /\ ~(free /\ f \in TableImage)
             /\ ~(free /\ f \in cacheIndex)
    /\ Cardinality(SeqToSet(free_list)) = Len(free_list)

\* C16: pin-replacer coupling: a frame is tracked by the replacer if and only
\* if its pin_count is 0 and it holds a cached page.
C16_PinReplacerCoupling ==
    \A f \in Frames :
        f \in cacheIndex <=> (pages[f].pin_count = 0 /\ f \in TableImage)

\* C17: capacity: free-list length plus page-table size equals pool_size.
C17_Capacity ==
    Len(free_list) + Cardinality(DOMAIN page_table) = PoolSize

\* C18: every frame in the free list has page_id INVALID, pin_count 0 and
\* is_dirty false.
C18_FreeFramesFresh ==
    \A i \in 1 .. Len(free_list) : pages[free_list[i]] = FreshPage

\* C11: flush_page(p) returns false and does nothing when p is not cached,
\* true otherwise; a dirty page gets exactly one write_page(p) and its flag
\* cleared, a clean page no write; pin counts, page table, free list and
\* replacer never change; a flush_page(p) that follows an earlier one with no
\* unpin_page(p, true) in between issues no write.
C11_FlushPage ==
    [][ (last'.op = "flush") =>
          LET p == last'.page
          IN /\ IF p \notin DOMAIN page_table
                THEN ~last'.ok /\ last'.io = << >> /\ UNCHANGED stateVars
                ELSE LET f == page_table[p]
                     IN /\ last'.ok
                        /\ IF pages[f].is_dirty
                           THEN last'.io = << Ev("write", p, f) >>
                           ELSE last'.io = << >>
                        /\ ~pages'[f].is_dirty
                        /\ pages'[f].page_id = pages[f].page_id
                        /\ \A g \in Frames :
                              /\ pages'[g].pin_count = pages[g].pin_count
                              /\ g # f => pages'[g] = pages[g]
                        /\ UNCHANGED <<page_table, free_list, cacheList,
                                       cacheIndex, next_page_id>>
             /\ p \in hist.flushed => Count(last'.io, "write") = 0 ]_vars

\* C12: flush_all issues exactly one write_page for each cached page that is
\* dirty and none for clean pages or free frames; afterwards no cached frame
\* is dirty, and an eviction that follows with no unpin_page(_, true) in
\* between writes nothing.
C12_FlushAll ==
    [][ /\ (last'.op = "flushall") =>
              /\ \A p \in DOMAIN page_table :
                    Cardinality({ i \in 1 .. Len(last'.io) :
                                    last'.io[i].ev = "write" /\ last'.io[i].page = p })
                      = IF pages[page_table[p]].is_dirty THEN 1 ELSE 0
              /\ \A i \in 1 .. Len(last'.io) :
                    /\ last'.io[i].ev = "write"
                    /\ last'.io[i].page \in DOMAIN page_table
              /\ \A p \in DOMAIN page_table' : ~pages'[page_table'[p]].is_dirty
        /\ (hist.allClean /\ last'.op \in {"fetch", "new"}) =>
              Count(last'.io, "write") = 0 ]_vars

\* C19: pin accounting: for every cached page p the pin_count of its frame is
\* the number of successful fetch_page(p) / new_page returns minus the number
\* of successful unpin_page(p, _) returns since p became resident; pin_count
\* is never negative; a fetch_page or unpin_page of p never changes the
\* pin_count of a frame that holds a different page.
C19_PinAccounting ==
    [][ /\ \A p \in DOMAIN page_table' :
              pages'[page_table'[p]].pin_count = hist'.held[p]
        /\ \A f \in Frames : pages'[f].pin_count >= 0
        /\ (last'.op \in {"fetch", "unpin"}) =>
              \A f \in Frames :
                 pages'[f].page_id # last'.page =>
                    pages'[f].pin_count = pages[f].pin_count ]_vars

\* thread t is inside the body of a public operation
InBody(t) ==
    threads[t].pc \in {"run", "replacer", "unlock", "find", "test", "write",
                       "clear", "loop"}

\* C13: all six public operations hold the pool latch for their whole body,
\* so no step of one interleaves with another: a flush_page or flush_all never
\* writes back a frame that has been reassigned since it looked the page up,
\* and never clears a dirty flag set by a concurrent unpin_page(_, true)
\* whose modification has not been written.
C13_LatchHeld ==
    [][ \A t \in Threads :
          /\ InBody(t)' => latch' = t
          /\ (threads[t].pc = "write" /\ threads'[t].pc = "clear") =>
                /\ threads[t].page \in DOMAIN page_table
                /\ page_table[threads[t].page] = threads[t].frame
                /\ pages[threads[t].frame].page_id = threads[t].page
          /\ (threads[t].pc = "clear" /\ threads'[t].pc # "clear") =>
                threads[t].frame \notin hist.unsaved ]_vars

====
